---- MODULE Spec2Model ----
(***************************************************************************)
(* Verification model of the OpenMM toy-system notebooks                   *)
(* (lennard_jones_toysystem_own_integrator.ipynb and the droplet notebook  *)
(* that follows it in the same file).                                      *)
(*                                                                         *)
(* The module holds five state machines over disjoint groups of            *)
(* variables:                                                              *)
(*   SpecEuler       one Context driven by EulerIntegrator, one integrator *)
(*                   operation at a time;                                  *)
(*   SpecReporter    one EnergyReporter receiving describeNextReport and   *)
(*                   report calls while the simulation's step count moves; *)
(*   SpecNotebook    the cells of the two notebooks executed top to        *)
(*                   bottom, every library call free to raise;             *)
(*   SpecForces      the force builders called with other arguments than   *)
(*                   the notebooks', and the restraint energy evaluated;   *)
(*   SpecSimulation  Simulation.step with EnergyReporters attached, one    *)
(*                   loop iteration at a time.                             *)
(* A specification keeps the variables of the other machines constant.     *)
(***************************************************************************)
EXTENDS Integers, Sequences, FiniteSets, TLC

VARIABLES
    \* ---- Context driven by EulerIntegrator
    integrator,     \* the CustomIntegrator object built by EulerIntegrator.__init__
    mass,           \* particle mass m (the same for every particle)
    spring,         \* force constant of the force field acting on the context
    x,              \* per-DOF positions of the context
    v,              \* per-DOF velocities of the context
    ipc,            \* number of operations of the current step already executed
    oplog,          \* the operations executed in the current step, in order
    x0,             \* positions at the beginning of the current / last step
    v0,             \* velocities at the beginning of the current / last step
    nsteps,         \* number of completed integrator steps
    \* ---- one EnergyReporter and the simulation that calls it
    reporter,       \* the EnergyReporter object: _reportInterval, _pe, _ke, _te
    simulation,     \* the Simulation the reporter is attached to: currentStep
    described,      \* the tuple describeNextReport returned last, << >> before any call
    askedAt,        \* currentStep at that call
    reportLog,      \* the State objects handed to report, in call order
    \* ---- a notebook executed cell by cell
    nb,             \* the notebook being run: "own_integrator" or "droplet"
    pc,             \* index of the next statement of the notebook
    error,          \* "" while running, else the call that raised
    globals,        \* the kernel's global names and their values
    iter,           \* the for loop's position in integrators (0 outside the loop)
    nextId,         \* identity given to the next object created
    stages,         \* pipeline stages executed by the current run, in order
    lastSet,        \* identities of the arrays last handed to setPositions / setVelocities
    simulations,    \* the app.Simulation objects constructed so far, in order
    \* ---- the force builders called on their own
    callArgs,       \* the arguments of the calls: n_particles, sigma, epsilon, charge, box_size
    builtSystem,    \* the System the forces are added to
    builtForce,     \* the force the last call returned
    probe,          \* a particle position and the restraint energy evaluated there
    \* ---- Simulation.step with EnergyReporters, one loop iteration at a time
    stepper,        \* the Simulation: currentStep and reporters
    loop,           \* the step call in progress: phase, start, steps, endStep, nextReport, nextSteps
    reportedAt,     \* per reporter, the values of currentStep at its report calls
    calls           \* number of step calls that have returned

eulerVars == <<integrator, mass, spring, x, v, ipc, oplog, x0, v0, nsteps>>

reporterVars == <<reporter, simulation, described, askedAt, reportLog>>

notebookVars == <<nb, pc, error, globals, iter, nextId, stages, lastSet, simulations>>

forceVars == <<callArgs, builtSystem, builtForce, probe>>

loopVars == <<stepper, loop, reportedAt, calls>>

vars == <<integrator, mass, spring, x, v, ipc, oplog, x0, v0, nsteps,
          reporter, simulation, described, askedAt, reportLog,
          nb, pc, error, globals, iter, nextId, stages, lastSet, simulations,
          callArgs, builtSystem, builtForce, probe,
          stepper, loop, reportedAt, calls>>

(***************************************************************************)
(* Bounds of the model.                                                    *)
(***************************************************************************)
MaxDof == 2          \* degrees of freedom of the context
MaxCoord == 1        \* initial positions and velocities lie in -MaxCoord..MaxCoord
MaxEulerSteps == 2   \* integrator steps taken
MaxInterval == 3     \* largest reportInterval
MaxStep == 4         \* largest currentStep the simulation reaches
MaxReports == 3      \* report calls received by one reporter
MaxParticles == 2    \* largest n_particles (512 and 256 in the notebooks)
RunSteps == 4        \* steps of one simulation.step call (10000 in the notebooks)
ReportEvery == 2     \* report interval of every reporter (100 in the notebooks)
Precision == 8       \* significant bits of a double and of a random draw (53)
MaxReporters == 2    \* reporters attached to the simulation whose step loop is followed
MaxLoopStep == 6     \* largest currentStep that simulation reaches
MaxCalls == 2        \* step calls made on it
MaxOffset == 5       \* restraint energies are evaluated up to MaxOffset grid steps from the centre

(***************************************************************************)
(* EulerIntegrator (a CustomIntegrator): __init__ records a list of        *)
(* operations; every call of step() executes that list from first to last. *)
(***************************************************************************)
CustomIntegrator(timestep) == [dt |-> timestep, steps |-> << >>]

addUpdateContextState(I) ==
    [I EXCEPT !.steps = Append(@, [op |-> "UpdateContextState"])]

addComputePerDof(I, variable, expression) ==
    [I EXCEPT !.steps = Append(@, [op |-> "ComputePerDof", var |-> variable, expr |-> expression])]

addConstrainPositions(I) ==
    [I EXCEPT !.steps = Append(@, [op |-> "ConstrainPositions"])]

addConstrainVelocities(I) ==
    [I EXCEPT !.steps = Append(@, [op |-> "ConstrainVelocities"])]

\* EulerIntegrator with the two per-DOF updates registered in the other order.
EulerIntegratorPositionFirst(timestep) ==
    LET s0 == CustomIntegrator(timestep)
        s1 == addUpdateContextState(s0)
        s2 == addComputePerDof(s1, "x", "x+dt*v")
        s3 == addComputePerDof(s2, "v", "v+dt*f/m")
        s4 == addConstrainPositions(s3)
        s5 == addConstrainVelocities(s4)
    IN  s5

EulerIntegrator(timestep) ==
    LET s0 == CustomIntegrator(timestep)
        s1 == addUpdateContextState(s0)
        s2 == addComputePerDof(s1, "v", "v+dt*f/m")
        s3 == addComputePerDof(s2, "x", "x+dt*v")
        s4 == addConstrainPositions(s3)
        s5 == addConstrainVelocities(s4)
    IN  s5

\* The force on every degree of freedom at positions xs.  The force field is
\* the engine's; a linear restoring force stands for it.  Force constants are
\* multiples of every mass, so f/m is exact.
Force(xs, k) == [i \in DOMAIN xs |-> -(k * xs[i])]

\* The value of a per-DOF expression for degree of freedom i.
EvalPerDof(expression, i, xs, vs, fs, m, dt) ==
    CASE expression = "v+dt*f/m" -> vs[i] + dt * (fs[i] \div m)
      [] expression = "x+dt*v"   -> xs[i] + dt * vs[i]

Masses == {1, 2}
Springs == {0, 2}
Timesteps == {1, 2}
Coords == -MaxCoord..MaxCoord
DofVectors == UNION {[1..n -> Coords] : n \in 1..MaxDof}

EulerInit ==
    /\ integrator \in {EulerIntegrator(t) : t \in Timesteps}
    /\ mass \in Masses
    /\ spring \in Springs
    /\ x \in DofVectors
    /\ v \in {w \in DofVectors : Len(w) = Len(x)}
    /\ ipc = 0
    /\ oplog = << >>
    /\ x0 = x
    /\ v0 = v
    /\ nsteps = 0

\* The context of a specification that does not step the integrator.
EulerIdle ==
    /\ integrator = EulerIntegrator(1)
    /\ mass = 1
    /\ spring = 0
    /\ x = <<0>>
    /\ v = <<0>>
    /\ ipc = 0
    /\ oplog = << >>
    /\ x0 = x
    /\ v0 = v
    /\ nsteps = 0

\* The operation the integrator executes next.
NextOp == integrator.steps[ipc + 1]

\* Book-keeping common to every operation: advance within the list, and at
\* its end count the step as completed.
Advance(name) ==
    /\ oplog' = (IF ipc = 0 THEN << >> ELSE oplog) \o <<name>>
    /\ x0' = IF ipc = 0 THEN x ELSE x0
    /\ v0' = IF ipc = 0 THEN v ELSE v0
    /\ IF ipc + 1 = Len(integrator.steps)
         THEN ipc' = 0 /\ nsteps' = nsteps + 1
         ELSE ipc' = ipc + 1 /\ nsteps' = nsteps

StepEnabled ==
    /\ nsteps < MaxEulerSteps
    /\ ipc < Len(integrator.steps)

\* No force of the notebooks' systems changes the context state (there is no
\* thermostat or barostat), so the operation leaves positions and velocities.
UpdateContextState ==
    /\ StepEnabled
    /\ NextOp.op = "UpdateContextState"
    /\ Advance("UpdateContextState")
    /\ UNCHANGED <<integrator, mass, spring, x, v>>
    /\ UNCHANGED <<reporterVars, notebookVars, forceVars, loopVars>>

ComputePerDofV ==
    /\ StepEnabled
    /\ NextOp.op = "ComputePerDof"
    /\ NextOp.var = "v"
    /\ v' = [i \in DOMAIN v |->
                EvalPerDof(NextOp.expr, i, x, v, Force(x, spring), mass, integrator.dt)]
    /\ Advance("ComputePerDof v")
    /\ UNCHANGED <<integrator, mass, spring, x>>
    /\ UNCHANGED <<reporterVars, notebookVars, forceVars, loopVars>>

ComputePerDofX ==
    /\ StepEnabled
    /\ NextOp.op = "ComputePerDof"
    /\ NextOp.var = "x"
    /\ x' = [i \in DOMAIN x |->
                EvalPerDof(NextOp.expr, i, x, v, Force(x, spring), mass, integrator.dt)]
    /\ Advance("ComputePerDof x")
    /\ UNCHANGED <<integrator, mass, spring, v>>
    /\ UNCHANGED <<reporterVars, notebookVars, forceVars, loopVars>>

\* The notebooks' systems hold no constraints: both projections are no-ops.
ConstrainPositions ==
    /\ StepEnabled
    /\ NextOp.op = "ConstrainPositions"
    /\ Advance("ConstrainPositions")
    /\ UNCHANGED <<integrator, mass, spring, x, v>>
    /\ UNCHANGED <<reporterVars, notebookVars, forceVars, loopVars>>

ConstrainVelocities ==
    /\ StepEnabled
    /\ NextOp.op = "ConstrainVelocities"
    /\ Advance("ConstrainVelocities")
    /\ UNCHANGED <<integrator, mass, spring, x, v>>
    /\ UNCHANGED <<reporterVars, notebookVars, forceVars, loopVars>>

(***************************************************************************)
(* EnergyReporter.                                                         *)
(***************************************************************************)
\* A Quantity of the unit library: a number and its unit.
Quantity(number, u) == [value |-> number, unit |-> u]

\* Quantity.value_in_unit: the number of the quantity expressed in unit u.
\* The engine hands out a State's energies in kilojoules_per_mole.
value_in_unit(q, u) ==
    CASE q.unit = u -> q.value
      [] q.unit = "kilojoules_per_mole" /\ u = "joules_per_mole" -> q.value * 1000

\* The State handed to report: getEnergy was asked for, nothing else.
State(pe, ke) ==
    [potentialEnergy |-> Quantity(pe, "kilojoules_per_mole"),
     kineticEnergy   |-> Quantity(ke, "kilojoules_per_mole")]

PotentialEnergies == {-3, 0}
KineticEnergies == {1, 2}
States == {State(pe, ke) : pe \in PotentialEnergies, ke \in KineticEnergies}

\* EnergyReporter.__init__
EnergyReporter(reportInterval) ==
    [_reportInterval |-> reportInterval, _pe |-> << >>, _ke |-> << >>, _te |-> << >>]

\* describeNextReport counting the steps since the last report instead of
\* the steps until the next one.
describeNextReportStepsSince(self, sim) ==
    LET steps == sim.currentStep % self._reportInterval
    IN  <<steps, FALSE, FALSE, FALSE, TRUE, "None">>

\* describeNextReport asking for positions on the first report only.
describeNextReportFirstPositions(self, sim) ==
    LET steps == self._reportInterval - (sim.currentStep % self._reportInterval)
    IN  <<steps, Len(self._pe) = 0, FALSE, FALSE, TRUE, "None">>

\* EnergyReporter.describeNextReport: the tuple it returns.
describeNextReport(self, sim) ==
    LET steps == self._reportInterval - (sim.currentStep % self._reportInterval)
    IN  <<steps, FALSE, FALSE, FALSE, TRUE, "None">>

\* report storing the potential energy as the total energy.
reportTotalWithoutKinetic(self, sim, state) ==
    LET pe == value_in_unit(state.potentialEnergy, "kilojoules_per_mole")
        ke == value_in_unit(state.kineticEnergy, "kilojoules_per_mole")
    IN  [self EXCEPT !._pe = Append(@, pe),
                     !._ke = Append(@, ke),
                     !._te = Append(@, pe)]

\* EnergyReporter.report: the reporter after the call.
report(self, sim, state) ==
    LET pe == value_in_unit(state.potentialEnergy, "kilojoules_per_mole")
        ke == value_in_unit(state.kineticEnergy, "kilojoules_per_mole")
    IN  [self EXCEPT !._pe = Append(@, pe),
                     !._ke = Append(@, ke),
                     !._te = Append(@, pe + ke)]

ReporterInit ==
    /\ reporter \in {EnergyReporter(k) : k \in 1..MaxInterval}
    /\ simulation = [currentStep |-> 0]
    /\ described = << >>
    /\ askedAt = 0
    /\ reportLog = << >>

\* The reporter of a specification that never calls it.
ReporterIdle ==
    /\ reporter = EnergyReporter(1)
    /\ simulation = [currentStep |-> 0]
    /\ described = << >>
    /\ askedAt = 0
    /\ reportLog = << >>

CallDescribeNextReport ==
    /\ described' = describeNextReport(reporter, simulation)
    /\ askedAt' = simulation.currentStep
    /\ UNCHANGED <<reporter, simulation, reportLog>>
    /\ UNCHANGED <<eulerVars, notebookVars, forceVars, loopVars>>

CallReport ==
    /\ Len(reportLog) < MaxReports
    /\ \E state \in States :
          /\ reporter' = report(reporter, simulation, state)
          /\ reportLog' = Append(reportLog, state)
    /\ UNCHANGED <<simulation, described, askedAt>>
    /\ UNCHANGED <<eulerVars, notebookVars, forceVars, loopVars>>

\* The simulation advances one time step.
AdvanceStep ==
    /\ simulation.currentStep < MaxStep
    /\ simulation' = [simulation EXCEPT !.currentStep = @ + 1]
    /\ UNCHANGED <<reporter, described, askedAt, reportLog>>
    /\ UNCHANGED <<eulerVars, notebookVars, forceVars, loopVars>>

(***************************************************************************)
(* The engine's objects as the notebooks use them.  Lengths are tenths of  *)
(* an angstrom, masses tenths of an amu, epsilon thousandths of a          *)
(* kilocalorie per mole, so every number the notebooks write is an         *)
(* integer.  Every object carries the identity it received at creation.    *)
(***************************************************************************)
NoObject == [id |-> 0]

\* np.diag([b, b, b])
Diag(b) == <<<<b, 0, 0>>, <<0, b, 0>>, <<0, 0, b>>>>

\* mm.System()
mm_System(oid) == [id |-> oid, masses |-> << >>, forces |-> << >>, box |-> << >>]

System_addParticle(system, m) == [system EXCEPT !.masses = Append(@, m)]

System_addForce(system, force) == [system EXCEPT !.forces = Append(@, force)]

System_getNumParticles(system) == Len(system.masses)

RECURSIVE AddParticlesLoop(_, _, _, _)
AddParticlesLoop(system, m, index, n_particles) ==
    IF index >= n_particles THEN system
    ELSE AddParticlesLoop(System_addParticle(system, m), m, index + 1, n_particles)

\* initialize_system(n_particles, mass, box_size); oid is the identity of the
\* System it creates.
initialize_system(oid, n_particles, m, box_size) ==
    LET system == AddParticlesLoop(mm_System(oid), m, 0, n_particles)
    IN  [system EXCEPT !.box = Diag(box_size)]

\* mm.NonbondedForce(): no cutoff, 1 nm cutoff distance, no switching
\* function, dispersion correction on.
mm_NonbondedForce(oid) ==
    [id |-> oid, kind |-> "NonbondedForce", method |-> "NoCutoff", particles |-> << >>,
     cutoff |-> 100, useSwitching |-> FALSE, switching |-> -1, useDispersion |-> TRUE]

Force_addParticle(force, charge, sigma, epsilon) ==
    [force EXCEPT !.particles = Append(@, <<charge, sigma, epsilon>>)]

RECURSIVE AddParametersLoop(_, _, _, _, _, _)
AddParametersLoop(force, charge, sigma, epsilon, index, n_particles) ==
    IF index >= n_particles THEN force
    ELSE AddParametersLoop(Force_addParticle(force, charge, sigma, epsilon),
                           charge, sigma, epsilon, index + 1, n_particles)

\* create_NonBonndedForce whose loop starts at particle 1.
create_NonBonndedForceFromOne(oid, n_particles, sigma, epsilon, charge) ==
    LET f0 == [mm_NonbondedForce(oid) EXCEPT !.method = "CutoffPeriodic"]
        f1 == AddParametersLoop(f0, charge, sigma, epsilon, 1, n_particles)
        f2 == [f1 EXCEPT !.cutoff = 3 * sigma]
        f3 == [f2 EXCEPT !.useSwitching = TRUE]
        f4 == [f3 EXCEPT !.switching = (25 * sigma) \div 10]
        f5 == [f4 EXCEPT !.useDispersion = TRUE]
    IN  f5

\* create_NonBonndedForce with the switching function starting at the cutoff.
create_NonBonndedForceSwitchAtCutoff(oid, n_particles, sigma, epsilon, charge) ==
    LET f0 == [mm_NonbondedForce(oid) EXCEPT !.method = "CutoffPeriodic"]
        f1 == AddParametersLoop(f0, charge, sigma, epsilon, 0, n_particles)
        f2 == [f1 EXCEPT !.cutoff = 3 * sigma]
        f3 == [f2 EXCEPT !.useSwitching = TRUE]
        f4 == [f3 EXCEPT !.switching = 3 * sigma]
        f5 == [f4 EXCEPT !.useDispersion = TRUE]
    IN  f5

\* create_NonBonndedForce(n_particles, sigma, epsilon, charge)
create_NonBonndedForce(oid, n_particles, sigma, epsilon, charge) ==
    LET f0 == [mm_NonbondedForce(oid) EXCEPT !.method = "CutoffPeriodic"]
        f1 == AddParametersLoop(f0, charge, sigma, epsilon, 0, n_particles)
        f2 == [f1 EXCEPT !.cutoff = 3 * sigma]
        f3 == [f2 EXCEPT !.useSwitching = TRUE]
        f4 == [f3 EXCEPT !.switching = (25 * sigma) \div 10]
        f5 == [f4 EXCEPT !.useDispersion = TRUE]
    IN  f5

\* app.Topology()
app_Topology(oid) == [id |-> oid, chains |-> << >>, numAtoms |-> 0, box |-> << >>]

\* Topology.addChain: the chain is the last of top.chains.
Topology_addChain(top) == [top EXCEPT !.chains = Append(@, [residues |-> << >>])]

\* Topology.addResidue(name, chain, id): the residue is the last of the chain.
Topology_addResidue(top, name, chain, rid) ==
    [top EXCEPT !.chains[chain].residues =
        Append(@, [name |-> name, id |-> rid, atoms |-> << >>])]

\* Topology.addAtom(name, element, residue) for the last residue of the chain.
Topology_addAtom(top, name, element, chain) ==
    LET residue == Len(top.chains[chain].residues)
    IN  [top EXCEPT !.chains[chain].residues[residue].atoms =
                        Append(@, [name |-> name, element |-> element, index |-> top.numAtoms]),
                    !.numAtoms = @ + 1]

\* The loop of create_topology with the residue created once, before the
\* loop, so that every atom joins the same residue.
RECURSIVE AddAtomsLoop(_, _, _, _)
AddAtomsLoop(top, chain, i, n_particles) ==
    IF i >= n_particles THEN top
    ELSE AddAtomsLoop(Topology_addAtom(top, "Ar", "Ar", chain), chain, i + 1, n_particles)

AddResiduesLoopOneResidue(top, chain, i, n_particles) ==
    AddAtomsLoop(Topology_addResidue(top, "Ar", chain, i), chain, i, n_particles)

RECURSIVE AddResiduesLoop(_, _, _, _)
AddResiduesLoop(top, chain, i, n_particles) ==
    IF i >= n_particles THEN top
    ELSE LET withResidue == Topology_addResidue(top, "Ar", chain, i)
             withAtom == Topology_addAtom(withResidue, "Ar", "Ar", chain)
         IN  AddResiduesLoop(withAtom, chain, i + 1, n_particles)

\* create_topology(n_particles, box_size)
create_topology(oid, n_particles, box_size) ==
    LET top0 == Topology_addChain(app_Topology(oid))
        chain == Len(top0.chains)
        top1 == AddResiduesLoop(top0, chain, 0, n_particles)
    IN  [top1 EXCEPT !.box = Diag(box_size)]

\* The atoms of a topology in index order.
RECURSIVE Flatten(_)
Flatten(seqs) == IF seqs = << >> THEN << >> ELSE Head(seqs) \o Flatten(Tail(seqs))

Topology_residues(top) == Flatten([c \in DOMAIN top.chains |-> top.chains[c].residues])

Topology_atoms(top) ==
    LET residues == Topology_residues(top)
    IN  Flatten([r \in DOMAIN residues |-> residues[r].atoms])

\* The engine's own integrators: only their kind and step size matter here.
mm_VerletIntegrator(oid, timestep) ==
    [id |-> oid, kind |-> "VerletIntegrator", dt |-> timestep, steps |-> << >>]

VelocityVerletIntegrator(oid, timestep) ==
    [id |-> oid, kind |-> "VelocityVerletIntegrator", dt |-> timestep, steps |-> << >>]

NewEulerIntegrator(oid, timestep) ==
    [id |-> oid, kind |-> "EulerIntegrator"] @@ EulerIntegrator(timestep)

\* An n x 3 array or list of vectors.
Array(oid, rows) == [id |-> oid, rows |-> rows]

ZeroRows(n) == [i \in 1..n |-> <<0, 0, 0>>]

\* copy.deepcopy: an equal value in a new object.
deepcopy(oid, object) == [object EXCEPT !.id = oid]

\* app.Simulation(topology, system, integrator): it keeps the three objects
\* it is given and creates the Context.
app_Simulation(oid, topology, system, integ) ==
    [id |-> oid, topology |-> topology, system |-> system, integrator |-> integ,
     context |-> [positions |-> ZeroRows(System_getNumParticles(system)),
                  velocities |-> ZeroRows(System_getNumParticles(system)),
                  minimized |-> FALSE],
     currentStep |-> 0,
     reporters |-> << >>]

\* The check the engine makes when it creates the Context of a periodic
\* system: no NonbondedForce with a periodic cutoff may have a cutoff
\* distance greater than half the periodic box size.
Context_cutoffWithinBox(system) ==
    \A f \in DOMAIN system.forces :
        (system.forces[f].kind = "NonbondedForce" /\ system.forces[f].method = "CutoffPeriodic")
            => \A d \in 1..3 : 2 * system.forces[f].cutoff <= system.box[d][d]

\* Context.setPositions / setVelocities copy the values they are given.
Context_setPositions(sim, array) ==
    [sim EXCEPT !.context.positions = array.rows, !.context.minimized = FALSE]

Context_setVelocities(sim, array) ==
    [sim EXCEPT !.context.velocities = array.rows]

\* Simulation.minimizeEnergy.  The particles of this model do not interact,
\* so every configuration is a minimum and the positions stay.
Simulation_minimizeEnergy(sim) == [sim EXCEPT !.context.minimized = TRUE]

(***************************************************************************)
(* Reporters and Simulation.step.                                          *)
(***************************************************************************)
\* The reporter objects of the notebooks.  The engine's DCDReporter and
\* StateDataReporter report every reportInterval steps as well; what they
\* write goes to a file, of which the model keeps the number of records.
NewEnergyReporter(reportInterval) ==
    [kind |-> "EnergyReporter"] @@ EnergyReporter(reportInterval)

FileReporter(kind, file, reportInterval) ==
    [kind |-> kind, file |-> file, _reportInterval |-> reportInterval, written |-> 0]

Reporter_describeNextReport(r, sim) ==
    IF r.kind = "EnergyReporter"
      THEN describeNextReport(r, sim)
      ELSE <<r._reportInterval - (sim.currentStep % r._reportInterval),
             r.kind = "DCDReporter", FALSE, FALSE, r.kind = "StateDataReporter", "None">>

Reporter_report(r, sim, state) ==
    IF r.kind = "EnergyReporter"
      THEN report(r, sim, state)
      ELSE [r EXCEPT !.written = @ + 1]

RECURSIVE SumSquares(_)
SumSquares(rows) ==
    IF rows = << >> THEN 0
    ELSE LET r == Head(rows)
         IN  r[1] * r[1] + r[2] * r[2] + r[3] * r[3] + SumSquares(Tail(rows))

\* Context.getState(getEnergy=True): free particles have no potential
\* energy; the kinetic energy is taken in units that make it the sum of the
\* squared velocity components.
Context_getState(sim) == State(0, SumSquares(sim.context.velocities))

\* One operation of a CustomIntegrator applied to a whole context.
ApplyOperation(context, o, m, dt) ==
    IF o.op = "ComputePerDof"
      THEN LET new == [i \in DOMAIN context.positions |->
                          [c \in 1..3 |->
                              EvalPerDof(o.expr, c, context.positions[i],
                                         context.velocities[i],
                                         Force(context.positions[i], 0), m, dt)]]
           IN  IF o.var = "v" THEN [context EXCEPT !.velocities = new]
                              ELSE [context EXCEPT !.positions = new]
      ELSE context

RECURSIVE ApplyOperations(_, _, _, _)
ApplyOperations(context, ops, m, dt) ==
    IF ops = << >> THEN context
    ELSE ApplyOperations(ApplyOperation(context, Head(ops), m, dt), Tail(ops), m, dt)

\* Integrator.step(1).  The engine's own integrators are not the notebooks'
\* code; for free particles they move every particle by dt times its velocity.
Integrator_step(sim) ==
    LET integ == sim.integrator
        m == IF sim.system.masses = << >> THEN 1 ELSE sim.system.masses[1]
    IN  IF integ.kind = "EulerIntegrator"
          THEN [sim EXCEPT !.context = ApplyOperations(@, integ.steps, m, integ.dt)]
          ELSE [sim EXCEPT !.context.positions =
                    [i \in DOMAIN @ |->
                        [c \in 1..3 |-> @[i][c] + integ.dt * sim.context.velocities[i][c]]]]

RECURSIVE Integrator_steps(_, _)
Integrator_steps(sim, count) ==
    IF count <= 0 THEN sim ELSE Integrator_steps(Integrator_step(sim), count - 1)

SetMin(S) == CHOOSE a \in S : \A b \in S : a <= b

\* The smallest request, whatever the number of steps that remain.
NextStepsUncapped(nextReport, remaining) ==
    LET asked == {nextReport[i][1] : i \in DOMAIN nextReport}
    IN  IF asked = {} THEN remaining ELSE SetMin(asked)

\* The number of steps the loop takes next: the smallest request that is
\* positive and within the remaining steps, the remaining steps without one.
NextSteps(nextReport, remaining) ==
    LET due == {nextReport[i][1] : i \in DOMAIN nextReport} \cap (1..remaining)
    IN  IF due = {} THEN remaining ELSE SetMin(due)

\* Every reporter receives a report whenever the loop has advanced.
ReportDueAlways(answer, nextSteps) == TRUE

\* A reporter receives a report when its request is the number of steps taken.
ReportDue(answer, nextSteps) == answer[1] = nextSteps

\* Simulation.step(steps): until endStep is reached, ask every reporter for
\* its next report, advance to the nearest one (or to endStep), and call
\* report on the reporters that asked for exactly that many steps.
RECURSIVE Simulate(_, _)
Simulate(sim, endStep) ==
    IF sim.currentStep >= endStep THEN sim
    ELSE LET nextReport == [i \in DOMAIN sim.reporters |->
                               Reporter_describeNextReport(sim.reporters[i], sim)]
             stepsToGo == NextSteps(nextReport, endStep - sim.currentStep)
             moved == [Integrator_steps(sim, stepsToGo) EXCEPT !.currentStep = @ + stepsToGo]
             state == Context_getState(moved)
         IN  Simulate([moved EXCEPT !.reporters =
                          [i \in DOMAIN @ |->
                              IF ReportDue(nextReport[i], stepsToGo)
                                THEN Reporter_report(@[i], moved, state)
                                ELSE @[i]]],
                      endStep)

Simulation_step(sim, steps) == Simulate(sim, sim.currentStep + steps)

(***************************************************************************)
(* The notebooks as lists of statements.  Cells that only define functions *)
(* or import modules are left out.  Every statement names its line in the  *)
(* file, the run it belongs to and the pipeline stage it carries out.      *)
(***************************************************************************)
Stmt(op, arg, line, run, stage) ==
    [op |-> op, arg |-> arg, line |-> line, run |-> run, stage |-> stage]

OwnIntegratorNotebook ==
    << Stmt("input", "", 254, "", ""),
       Stmt("generate_positions", "", 283, "", ""),
       \* Normal Simulation
       Stmt("initialize_system", "", 302, "normal", "configure"),
       Stmt("create_NonBonndedForce", "", 305, "normal", "force_field"),
       Stmt("addForce", "", 306, "normal", "force_field"),
       Stmt("integrator", "VerletIntegrator", 309, "normal", "integrator"),
       Stmt("create_topology", "", 312, "normal", ""),
       Stmt("Simulation", "", 322, "normal", "context"),
       Stmt("setPositions", "positions", 332, "normal", "set_positions"),
       Stmt("setVelocitiesToTemperature", "", 334, "normal", "set_velocities"),
       Stmt("minimizeEnergy", "", 344, "normal", "minimize"),
       Stmt("append_reporter", "DCDReporter", 354, "normal", "reporters"),
       Stmt("append_reporter", "StateDataReporter", 355, "normal", "reporters"),
       Stmt("step", "", 369, "normal", "step"),
       Stmt("load_trajectory", "", 385, "normal", "load"),
       Stmt("visualize", "", 387, "normal", "visualize"),
       Stmt("plot", "genfromtxt", 406, "normal", "plot"),
       Stmt("plot", "plot", 416, "normal", "plot"),
       \* Simulation of an own Integrator
       Stmt("initialize_system", "", 502, "euler", "configure"),
       Stmt("create_NonBonndedForce", "", 505, "euler", "force_field"),
       Stmt("addForce", "", 506, "euler", "force_field"),
       Stmt("create_topology", "", 509, "euler", ""),
       Stmt("integrator", "EulerIntegrator", 519, "euler", "integrator"),
       Stmt("Simulation", "", 529, "euler", "context"),
       Stmt("setPositions", "positions", 539, "euler", "set_positions"),
       Stmt("setVelocitiesToTemperature", "", 541, "euler", "set_velocities"),
       Stmt("minimizeEnergy", "", 551, "euler", "minimize"),
       Stmt("append_reporter", "DCDReporter", 561, "euler", "reporters"),
       Stmt("append_reporter", "StateDataReporter", 562, "euler", "reporters"),
       Stmt("step", "", 576, "euler", "step"),
       Stmt("load_trajectory", "", 592, "euler", "load"),
       Stmt("visualize", "", 594, "euler", "visualize"),
       Stmt("plot", "genfromtxt", 613, "euler", "plot"),
       Stmt("plot", "plot", 623, "euler", "plot"),
       \* Compare different integrators: Init starting values
       Stmt("initialize_system", "", 679, "equilibrate", "configure"),
       Stmt("create_NonBonndedForce", "", 682, "equilibrate", "force_field"),
       Stmt("addForce", "", 683, "equilibrate", "force_field"),
       Stmt("integrator", "VerletIntegrator", 686, "equilibrate", "integrator"),
       Stmt("create_topology", "", 689, "equilibrate", ""),
       Stmt("Simulation", "", 692, "equilibrate", "context"),
       Stmt("setPositions", "positions", 695, "equilibrate", "set_positions"),
       Stmt("setVelocitiesToTemperature", "", 697, "equilibrate", "set_velocities"),
       Stmt("minimizeEnergy", "", 700, "equilibrate", "minimize"),
       Stmt("step", "", 703, "equilibrate", "step"),
       Stmt("capture_start", "", 721, "", ""),
       \* test integrators
       Stmt("define_integrators", "", 800, "", ""),
       Stmt("for", "", 817, "compare", "integrator"),
       Stmt("Simulation", "deepcopy", 820, "compare", "context"),
       Stmt("setPositions", "start_positions", 825, "compare", "set_positions"),
       Stmt("setVelocities", "start_velocities", 827, "compare", "set_velocities"),
       Stmt("append_reporter", "EnergyReporter", 829, "compare", "reporters"),
       Stmt("step", "", 832, "compare", "step"),
       Stmt("collect_energies", "", 835, "compare", ""),
       Stmt("plot", "plot", 855, "", "") >>

DropletNotebook ==
    << Stmt("input", "", 1177, "", ""),
       Stmt("generate_positions", "", 1207, "", ""),
       \* Normal Simulation
       Stmt("initialize_system", "", 1226, "droplet_normal", "configure"),
       Stmt("create_NonBonndedForce", "", 1229, "droplet_normal", "force_field"),
       Stmt("addForce", "", 1230, "droplet_normal", "force_field"),
       Stmt("integrator", "VerletIntegrator", 1233, "droplet_normal", "integrator"),
       Stmt("create_topology", "", 1236, "droplet_normal", ""),
       Stmt("Simulation", "", 1239, "droplet_normal", "context"),
       Stmt("setPositions", "positions", 1255, "droplet_normal", "set_positions"),
       Stmt("visualize", "", 1271, "droplet_normal", "visualize"),
       Stmt("minimizeEnergy", "", 1302, "droplet_normal", "minimize"),
       Stmt("visualize", "", 1318, "droplet_normal", "visualize"),
       Stmt("append_reporter", "DCDReporter", 1345, "droplet_normal", "reporters"),
       Stmt("append_reporter", "StateDataReporter", 1346, "droplet_normal", "reporters"),
       Stmt("setVelocitiesToTemperature", "", 1361, "droplet_normal", "set_velocities"),
       Stmt("step", "", 1370, "droplet_normal", "step"),
       Stmt("load_trajectory", "", 1388, "droplet_normal", "load"),
       Stmt("visualize", "", 1390, "droplet_normal", "visualize"),
       \* Spherical potential
       Stmt("initialize_system", "", 1419, "droplet_spherical", "configure"),
       Stmt("create_NonBonndedForce", "", 1422, "droplet_spherical", "force_field"),
       Stmt("addForce", "", 1423, "droplet_spherical", "force_field"),
       Stmt("integrator", "VerletIntegrator", 1426, "droplet_spherical", "integrator"),
       Stmt("create_topology", "", 1429, "droplet_spherical", ""),
       Stmt("custom_external_force", "", 1454, "droplet_spherical", "force_field"),
       Stmt("Simulation", "", 1507, "droplet_spherical", "context"),
       Stmt("setPositions", "positions", 1517, "droplet_spherical", "set_positions"),
       Stmt("setVelocitiesToTemperature", "", 1519, "droplet_spherical", "set_velocities"),
       Stmt("minimizeEnergy", "", 1529, "droplet_spherical", "minimize"),
       Stmt("append_reporter", "DCDReporter", 1539, "droplet_spherical", "reporters"),
       Stmt("append_reporter", "StateDataReporter", 1540, "droplet_spherical", "reporters"),
       Stmt("step", "", 1554, "droplet_spherical", "step"),
       Stmt("load_trajectory", "", 1572, "droplet_spherical", "load"),
       Stmt("visualize", "", 1574, "droplet_spherical", "visualize") >>

\* The notebooks with the first minimizeEnergy and the first step exchanged.
ProgramStepBeforeMinimize ==
    LET P == IF nb = "own_integrator" THEN OwnIntegratorNotebook ELSE DropletNotebook
        First(op) == CHOOSE i \in DOMAIN P :
                        P[i].op = op /\ \A j \in 1..(i - 1) : P[j].op # op
        i == First("minimizeEnergy")
        j == First("step")
    IN  [k \in DOMAIN P |-> IF k = i THEN P[j] ELSE IF k = j THEN P[i] ELSE P[k]]

\* The notebooks with the first setPositions and the first minimizeEnergy
\* exchanged.
ProgramMinimizeBeforeSetPositions ==
    LET P == IF nb = "own_integrator" THEN OwnIntegratorNotebook ELSE DropletNotebook
        First(op) == CHOOSE i \in DOMAIN P :
                        P[i].op = op /\ \A j \in 1..(i - 1) : P[j].op # op
        i == First("setPositions")
        j == First("minimizeEnergy")
    IN  [k \in DOMAIN P |-> IF k = i THEN P[j] ELSE IF k = j THEN P[i] ELSE P[k]]

Program == IF nb = "own_integrator" THEN OwnIntegratorNotebook ELSE DropletNotebook

\* The statement about to execute.
Cur == Program[pc]

\* Index of the first statement with the given operation.
IndexOf(op) == CHOOSE i \in DOMAIN Program : Program[i].op = op /\ \A j \in 1..(i - 1) : Program[j].op # op

\* Execution that goes on after a call has raised.
RunningDespiteError == TRUE

\* No statement of the notebooks sits in a try block: once a call has raised,
\* execution is over.
Running == error = ""

At(op) == Running /\ pc <= Len(Program) /\ Cur.op = op

\* The stage of the statement joins the trace of its run.
LogStage ==
    stages' = IF Cur.stage = "" THEN stages
              ELSE IF Cur.run # stages.run
                     THEN [run |-> Cur.run, trace |-> <<Cur.stage>>]
                     ELSE [stages EXCEPT !.trace = Append(@, Cur.stage)]

Done == pc' = pc + 1 /\ error' = error /\ LogStage

(***************************************************************************)
(* Execution of a notebook: one action per kind of statement.              *)
(***************************************************************************)
NoIntegrator == [id |-> 0, kind |-> "", dt |-> 0, steps |-> << >>]

NoSimulation == app_Simulation(0, app_Topology(0), mm_System(0), NoIntegrator)

EmptyGlobals ==
    [mass |-> 0, charge |-> 0, sigma |-> 0, epsilon |-> 0,
     n_particles |-> 0, box_size |-> 0, space |-> 0, timestep |-> 0,
     positions |-> Array(0, << >>),
     system |-> mm_System(0), force |-> mm_NonbondedForce(0), force_index |-> 0,
     integrator |-> NoIntegrator, topology |-> app_Topology(0),
     simulation |-> NoSimulation,
     start_energies |-> <<0, 0, 0>>,
     start_positions |-> Array(0, << >>), start_velocities |-> Array(0, << >>),
     start_topology |-> app_Topology(0), start_system |-> mm_System(0),
     integrators |-> << >>, list_names |-> << >>, list_energies |-> << >>]

NotebookInit ==
    /\ nb \in {"own_integrator", "droplet"}
    /\ pc = 1
    /\ error = ""
    /\ globals = EmptyGlobals
    /\ iter = 0
    /\ nextId = 1
    /\ stages = [run |-> "", trace |-> << >>]
    /\ lastSet = [positions |-> 0, velocities |-> 0]
    /\ simulations = << >>

\* The notebook of a specification that does not run one.
NotebookIdle ==
    /\ nb = "own_integrator"
    /\ pc = 1
    /\ error = ""
    /\ globals = EmptyGlobals
    /\ iter = 0
    /\ nextId = 1
    /\ stages = [run |-> "", trace |-> << >>]
    /\ lastSet = [positions |-> 0, velocities |-> 0]
    /\ simulations = << >>

Others == UNCHANGED <<eulerVars, reporterVars, forceVars, loopVars, nb>>

\* np.random.rand draws multiples of 2^-53 from [0, 1) and the positions are
\* computed in doubles of 53 significant bits.  The model draws multiples of
\* 2^-Precision and computes with Precision significant bits; a draw is
\* written as its numerator.  The rows hold the smallest draw, one half and
\* the largest draw.
RandRows == {<<0, 0, 0>>, <<2^Precision - 1, 2^(Precision - 1), 0>>}

\* setVelocitiesToTemperature draws every velocity at random.
VelocityRows == {<<0, 0, 0>>, <<1, -1, 0>>}

\* The Input cell with sigma = 3.4 nanometer.
InputSigmaInNanometer ==
    /\ At("input")
    /\ \E n \in 0..MaxParticles :
          globals' = [globals EXCEPT
                        !.mass = 399, !.charge = 0, !.sigma = 340, !.epsilon = 238,
                        !.n_particles = n,
                        !.box_size = IF nb = "own_integrator" THEN 500 ELSE 750,
                        !.space = IF nb = "own_integrator" THEN @ ELSE 100,
                        !.timestep = 1]
    /\ Done /\ Others
    /\ UNCHANGED <<iter, nextId, lastSet, simulations>>

\* The Input cell.  n_particles is 512 or 256 in the notebooks.
Input ==
    /\ At("input")
    /\ \E n \in 0..MaxParticles :
          globals' = [globals EXCEPT
                        !.mass = 399, !.charge = 0, !.sigma = 34, !.epsilon = 238,
                        !.n_particles = n,
                        !.box_size = IF nb = "own_integrator" THEN 500 ELSE 750,
                        !.space = IF nb = "own_integrator" THEN @ ELSE 100,
                        !.timestep = 1]
    /\ Done /\ Others
    /\ UNCHANGED <<iter, nextId, lastSet, simulations>>

\* A length of the notebooks (tenths of an angstrom) in the unit the
\* positions array is kept in, 2^-Precision angstrom.
InPositionUnits(length) == (length * 2^Precision) \div 10

\* The smallest power of two u, from u on, with n < u * 2^Precision: the
\* spacing of the doubles around n.
RECURSIVE Spacing(_, _)
Spacing(n, u) == IF n < u * 2^Precision THEN u ELSE Spacing(n, 2 * u)

\* The double nearest to n, ties to the even significand.
RoundToDouble(n) ==
    LET u == Spacing(n, 1)
        q == n \div u
        rem == n % u
    IN  IF 2 * rem < u THEN q * u
        ELSE IF 2 * rem > u THEN (q + 1) * u
        ELSE IF q % 2 = 0 THEN q * u ELSE (q + 1) * u

\* A coordinate of the positions array without the spacer: box_size * rand
\* in both notebooks.
ScaledPositionWholeBox(r) ==
    RoundToDouble((InPositionUnits(globals.box_size) * r) \div 2^Precision)

\* positions = box_size * rand(n, 3), or in the droplet notebook
\* (box_size - space*2) * rand(n, 3) + space: one coordinate for the draw r.
ScaledPosition(r) ==
    IF nb = "own_integrator"
      THEN RoundToDouble((InPositionUnits(globals.box_size) * r) \div 2^Precision)
      ELSE RoundToDouble(
               RoundToDouble((InPositionUnits(globals.box_size - globals.space * 2) * r)
                                 \div 2^Precision)
               + InPositionUnits(globals.space))

GeneratePositions ==
    /\ At("generate_positions")
    /\ \E rand \in [1..globals.n_particles -> RandRows] :
          globals' = [globals EXCEPT !.positions =
                        Array(nextId, [i \in 1..globals.n_particles |->
                                          [c \in 1..3 |-> ScaledPosition(rand[i][c])]])]
    /\ nextId' = nextId + 1
    /\ Done /\ Others
    /\ UNCHANGED <<iter, lastSet, simulations>>

InitializeSystem ==
    /\ At("initialize_system")
    /\ globals' = [globals EXCEPT !.system =
                      initialize_system(nextId, globals.n_particles, globals.mass,
                                        globals.box_size)]
    /\ nextId' = nextId + 1
    /\ Done /\ Others
    /\ UNCHANGED <<iter, lastSet, simulations>>

CreateNonbondedForce ==
    /\ At("create_NonBonndedForce")
    /\ globals' = [globals EXCEPT !.force =
                      create_NonBonndedForce(nextId, globals.n_particles, globals.sigma,
                                             globals.epsilon, globals.charge)]
    /\ nextId' = nextId + 1
    /\ Done /\ Others
    /\ UNCHANGED <<iter, lastSet, simulations>>

AddForce ==
    /\ At("addForce")
    /\ globals' = [globals EXCEPT !.system = System_addForce(@, globals.force),
                                  !.force_index = Len(globals.system.forces)]
    /\ Done /\ Others
    /\ UNCHANGED <<iter, nextId, lastSet, simulations>>

PickIntegrator ==
    /\ At("integrator")
    /\ globals' = [globals EXCEPT !.integrator =
                      IF Cur.arg = "EulerIntegrator"
                        THEN NewEulerIntegrator(nextId, globals.timestep)
                        ELSE mm_VerletIntegrator(nextId, globals.timestep)]
    /\ nextId' = nextId + 1
    /\ Done /\ Others
    /\ UNCHANGED <<iter, lastSet, simulations>>

CreateTopology ==
    /\ At("create_topology")
    /\ globals' = [globals EXCEPT !.topology =
                      create_topology(nextId, globals.n_particles, globals.box_size)]
    /\ nextId' = nextId + 1
    /\ Done /\ Others
    /\ UNCHANGED <<iter, lastSet, simulations>>

\* The CustomExternalForce cell of the droplet notebook.
RECURSIVE AddRestrainedLoop(_, _, _)
AddRestrainedLoop(force, i, count) ==
    IF i >= count THEN force
    ELSE AddRestrainedLoop([force EXCEPT !.particles = Append(@, i)], i + 1, count)

CustomExternalForce(oid, system, box_size) ==
    LET force == [id |-> oid, kind |-> "CustomExternalForce",
                  expression |-> "10*max(0, r-{r0})^2; r=sqrt((x-{x0})^2+(y-{x0})^2+(z-{z0})^2)",
                  r0 |-> 200, x0 |-> box_size \div 2, y0 |-> box_size \div 2,
                  z0 |-> box_size \div 2, particles |-> << >>]
    IN  AddRestrainedLoop(force, 0, System_getNumParticles(system))

AddCustomExternalForce ==
    /\ At("custom_external_force")
    /\ LET force == CustomExternalForce(nextId, globals.system, globals.box_size)
       IN  globals' = [globals EXCEPT !.force = force,
                                      !.system = System_addForce(@, force)]
    /\ nextId' = nextId + 1
    /\ Done /\ Others
    /\ UNCHANGED <<iter, lastSet, simulations>>

\* app.Simulation(...) handed the stored topology and system themselves in
\* the comparison loop.
CreateSimulationWithoutCopies ==
    /\ At("Simulation")
    /\ IF Cur.arg = "deepcopy"
         THEN /\ globals' = [globals EXCEPT !.simulation =
                               app_Simulation(nextId + 2, globals.start_topology,
                                              globals.start_system, globals.integrator)]
              /\ nextId' = nextId + 3
         ELSE /\ globals' = [globals EXCEPT !.simulation =
                               app_Simulation(nextId, globals.topology, globals.system,
                                              globals.integrator)]
              /\ nextId' = nextId + 1
    /\ simulations' = Append(simulations, globals'.simulation)
    /\ Done /\ Others
    /\ UNCHANGED <<iter, lastSet>>

\* app.Simulation(...): with the notebook's objects, or in the comparison
\* loop with deep copies of the stored topology and system.
CreateSimulation ==
    /\ At("Simulation")
    /\ IF Cur.arg = "deepcopy"
         THEN /\ globals' = [globals EXCEPT !.simulation =
                               app_Simulation(nextId + 2,
                                              deepcopy(nextId, globals.start_topology),
                                              deepcopy(nextId + 1, globals.start_system),
                                              globals.integrator)]
              /\ nextId' = nextId + 3
         ELSE /\ globals' = [globals EXCEPT !.simulation =
                               app_Simulation(nextId, globals.topology, globals.system,
                                              globals.integrator)]
              /\ nextId' = nextId + 1
    /\ simulations' = Append(simulations, globals'.simulation)
    /\ Done /\ Others
    /\ UNCHANGED <<iter, lastSet>>

\* The array a setPositions statement hands to the context.
PositionsArgument ==
    IF Cur.arg = "start_positions"
      THEN deepcopy(nextId, globals.start_positions)
      ELSE globals.positions

SetPositions ==
    /\ At("setPositions")
    /\ globals' = [globals EXCEPT !.simulation = Context_setPositions(@, PositionsArgument)]
    /\ lastSet' = [lastSet EXCEPT !.positions = PositionsArgument.id]
    /\ nextId' = nextId + 1
    /\ Done /\ Others
    /\ UNCHANGED <<iter, simulations>>

SetVelocitiesToTemperature ==
    /\ At("setVelocitiesToTemperature")
    /\ \E drawn \in [1..System_getNumParticles(globals.simulation.system) -> VelocityRows] :
          globals' = [globals EXCEPT !.simulation = Context_setVelocities(@, Array(0, drawn))]
    /\ lastSet' = [lastSet EXCEPT !.velocities = 0]
    /\ Done /\ Others
    /\ UNCHANGED <<iter, nextId, simulations>>

\* setVelocities handed the stored positions.
VelocitiesArgumentPositions == deepcopy(nextId, globals.start_positions)

\* The array the comparison loop hands to setVelocities.
VelocitiesArgument == deepcopy(nextId, globals.start_velocities)

SetVelocities ==
    /\ At("setVelocities")
    /\ globals' = [globals EXCEPT !.simulation = Context_setVelocities(@, VelocitiesArgument)]
    /\ lastSet' = [lastSet EXCEPT !.velocities = VelocitiesArgument.id]
    /\ nextId' = nextId + 1
    /\ Done /\ Others
    /\ UNCHANGED <<iter, simulations>>

MinimizeEnergy ==
    /\ At("minimizeEnergy")
    /\ globals' = [globals EXCEPT !.simulation = Simulation_minimizeEnergy(@)]
    /\ Done /\ Others
    /\ UNCHANGED <<iter, nextId, lastSet, simulations>>

AppendReporter ==
    /\ At("append_reporter")
    /\ globals' = [globals EXCEPT !.simulation.reporters =
                      Append(@, IF Cur.arg = "EnergyReporter"
                                  THEN NewEnergyReporter(ReportEvery)
                                  ELSE FileReporter(Cur.arg, Cur.run, ReportEvery))]
    /\ Done /\ Others
    /\ UNCHANGED <<iter, nextId, lastSet, simulations>>

Step ==
    /\ At("step")
    /\ globals' = [globals EXCEPT !.simulation = Simulation_step(@, RunSteps)]
    /\ Done /\ Others
    /\ UNCHANGED <<iter, nextId, lastSet, simulations>>

\* mdtraj.load_dcd, viz_traj and the matplotlib cells read what the run left
\* behind and change none of the names the model follows.
LoadTrajectory ==
    /\ At("load_trajectory")
    /\ Done /\ Others
    /\ UNCHANGED <<globals, iter, nextId, lastSet, simulations>>

Visualize ==
    /\ At("visualize")
    /\ Done /\ Others
    /\ UNCHANGED <<globals, iter, nextId, lastSet, simulations>>

Plot ==
    /\ At("plot")
    /\ Done /\ Others
    /\ UNCHANGED <<globals, iter, nextId, lastSet, simulations>>

\* "Store the data to use it as starting point": getState hands out new
\* lists, deepcopy copies them once more.
CaptureStart ==
    /\ At("capture_start")
    /\ LET sim == globals.simulation
           state == Context_getState(sim)
           pe == state.potentialEnergy.value
           ke == state.kineticEnergy.value
       IN  globals' = [globals EXCEPT
                         !.start_energies = <<pe + ke, pe, ke>>,
                         !.start_positions =
                             deepcopy(nextId + 1, Array(nextId, sim.context.positions)),
                         !.start_velocities =
                             deepcopy(nextId + 3, Array(nextId + 2, sim.context.velocities)),
                         !.start_topology = deepcopy(nextId + 4, sim.topology),
                         !.start_system = deepcopy(nextId + 5, sim.system)]
    /\ nextId' = nextId + 6
    /\ Done /\ Others
    /\ UNCHANGED <<iter, lastSet, simulations>>

DefineIntegrators ==
    /\ At("define_integrators")
    /\ globals' = [globals EXCEPT
                     !.integrators = << mm_VerletIntegrator(nextId, globals.timestep),
                                        VelocityVerletIntegrator(nextId + 1, globals.timestep),
                                        NewEulerIntegrator(nextId + 2, globals.timestep) >>,
                     !.list_names = <<"leap-frog", "velocity-verlet", "euler">>,
                     !.list_energies = << >>]
    /\ nextId' = nextId + 3
    /\ Done /\ Others
    /\ UNCHANGED <<iter, lastSet, simulations>>

\* The for statement binding the first integrator of the list in every pass.
ForFirstIntegrator ==
    /\ At("for")
    /\ IF iter < Len(globals.integrators)
         THEN /\ iter' = iter + 1
              /\ globals' = [globals EXCEPT !.integrator = globals.integrators[1]]
              /\ pc' = pc + 1
              /\ stages' = [run |-> Cur.run, trace |-> <<Cur.stage>>]
         ELSE /\ iter' = 0
              /\ globals' = globals
              /\ pc' = IndexOf("collect_energies") + 1
              /\ stages' = stages
    /\ error' = error
    /\ Others
    /\ UNCHANGED <<nextId, lastSet, simulations>>

\* for integrator in integrators: bind the next integrator and enter the
\* body, or leave the loop when the list is exhausted.
For ==
    /\ At("for")
    /\ IF iter < Len(globals.integrators)
         THEN /\ iter' = iter + 1
              /\ globals' = [globals EXCEPT !.integrator = globals.integrators[iter + 1]]
              /\ pc' = pc + 1
              /\ stages' = [run |-> Cur.run, trace |-> <<Cur.stage>>]
         ELSE /\ iter' = 0
              /\ globals' = globals
              /\ pc' = IndexOf("collect_energies") + 1
              /\ stages' = stages
    /\ error' = error
    /\ Others
    /\ UNCHANGED <<nextId, lastSet, simulations>>

\* list_energies.append((deepcopy(_te), deepcopy(_pe), deepcopy(_ke))) of
\* simulation.reporters[0]; the body ends and control returns to the for.
CollectEnergies ==
    /\ At("collect_energies")
    /\ LET r == globals.simulation.reporters[1]
       IN  globals' = [globals EXCEPT !.list_energies = Append(@, <<r._te, r._pe, r._ke>>)]
    /\ pc' = IndexOf("for")
    /\ error' = error
    /\ stages' = stages
    /\ Others
    /\ UNCHANGED <<iter, nextId, lastSet, simulations>>

\* The engine calls that can raise.
RaisingOps ==
    {"Simulation", "setPositions", "setVelocitiesToTemperature", "setVelocities",
     "minimizeEnergy", "step"}

\* A call of the engine raises.  Nothing catches the exception: the statement
\* does not complete and the notebook stops there.  A step call can raise
\* after any number of its steps.
Raise ==
    /\ Running /\ pc <= Len(Program)
    /\ Cur.op \in RaisingOps
    /\ error' = Cur.op
    /\ IF Cur.op = "step"
         THEN \E done \in 0..(RunSteps - 1) :
                 globals' = [globals EXCEPT !.simulation = Simulation_step(@, done)]
         ELSE globals' = globals
    /\ Others
    /\ UNCHANGED <<pc, iter, nextId, stages, lastSet, simulations>>

NotebookNext ==
    \/ Input
    \/ GeneratePositions
    \/ InitializeSystem
    \/ CreateNonbondedForce
    \/ AddForce
    \/ PickIntegrator
    \/ CreateTopology
    \/ AddCustomExternalForce
    \/ CreateSimulation
    \/ SetPositions
    \/ SetVelocitiesToTemperature
    \/ SetVelocities
    \/ MinimizeEnergy
    \/ AppendReporter
    \/ Step
    \/ LoadTrajectory
    \/ Visualize
    \/ Plot
    \/ CaptureStart
    \/ DefineIntegrators
    \/ For
    \/ CollectEnergies
    \/ Raise

(***************************************************************************)
(* The force builders called on their own, for arguments other than the    *)
(* ones the notebooks pass.                                                *)
(***************************************************************************)
\* The largest r in lo..hi with r*r <= n.
RECURSIVE SqrtBetween(_, _, _)
SqrtBetween(n, lo, hi) ==
    IF lo >= hi THEN lo
    ELSE LET mid == (lo + hi + 1) \div 2
         IN  IF mid * mid <= n THEN SqrtBetween(n, mid, hi)
                               ELSE SqrtBetween(n, lo, mid - 1)

\* sqrt of the energy expressions, exact on the perfect squares it is given.
sqrt(n) == SqrtBetween(n, 0, 2048)

max(a, b) == IF a >= b THEN a ELSE b

\* The expression after str.format with the y term reading the origin.
FormattedCentreYOrigin(force) == <<force.x0, 0, force.z0>>

\* str.format replaces every {name} of the expression by the keyword
\* argument of that name.  The expression reads {x0} in its x term and in
\* its y term and {z0} in its z term; the keyword y0 is passed and not read.
FormattedCentre(force) == <<force.x0, force.x0, force.z0>>

\* The energy the engine evaluates from the formatted expression for one
\* particle at (x, y, z): 10*max(0, r-r0)^2 kJ/mol with lengths in nm.  With
\* lengths in hundredths of a nanometre it is returned in J/mol.
CustomExternalForce_energy(force, position) ==
    LET centre == FormattedCentre(force)
        r == sqrt((position[1] - centre[1]) * (position[1] - centre[1])
                  + (position[2] - centre[2]) * (position[2] - centre[2])
                  + (position[3] - centre[3]) * (position[3] - centre[3]))
        d == max(0, r - force.r0)
    IN  (10 * d * d) \div 10

Sigmas == {2, 34}
Epsilons == {238}
Charges == {0, 1}
BoxSizes == {500, 750}

\* Positions on a grid of 5 angstrom around the box centre whose distance
\* from the centre is a whole number of grid steps.
ProbeOffsets ==
    {o \in (-MaxOffset..MaxOffset) \X (-MaxOffset..MaxOffset) \X (-MaxOffset..MaxOffset) :
        \E steps \in 0..(2 * MaxOffset) :
            steps * steps = o[1] * o[1] + o[2] * o[2] + o[3] * o[3]}

ProbePositions(box_size) ==
    {<<box_size \div 2 + 50 * o[1], box_size \div 2 + 50 * o[2], box_size \div 2 + 50 * o[3]>> :
        o \in ProbeOffsets}

NoProbe == [evaluated |-> FALSE, position |-> <<0, 0, 0>>, energy |-> 0]

ForcesInit ==
    /\ callArgs \in [n_particles : 0..MaxParticles, sigma : Sigmas, epsilon : Epsilons,
                     charge : Charges, box_size : BoxSizes]
    /\ builtSystem = initialize_system(1, callArgs.n_particles, 399, callArgs.box_size)
    /\ builtForce = mm_NonbondedForce(0)
    /\ probe = NoProbe

\* The builders of a specification that does not call them.
ForcesIdle ==
    /\ callArgs = [n_particles |-> 0, sigma |-> 34, epsilon |-> 238, charge |-> 0,
                   box_size |-> 500]
    /\ builtSystem = initialize_system(1, 0, 399, 500)
    /\ builtForce = mm_NonbondedForce(0)
    /\ probe = NoProbe

\* force = create_NonBonndedForce(...); system.addForce(force)
CallCreateNonbondedForce ==
    /\ builtSystem.forces = << >>
    /\ LET force == create_NonBonndedForce(2, callArgs.n_particles, callArgs.sigma,
                                           callArgs.epsilon, callArgs.charge)
       IN  /\ builtForce' = force
           /\ builtSystem' = System_addForce(builtSystem, force)
    /\ UNCHANGED <<callArgs, probe>>
    /\ UNCHANGED <<eulerVars, reporterVars, notebookVars, loopVars>>

\* The CustomExternalForce cell.
CallCustomExternalForce ==
    /\ \A f \in DOMAIN builtSystem.forces : builtSystem.forces[f].kind # "CustomExternalForce"
    /\ LET force == CustomExternalForce(3, builtSystem, callArgs.box_size)
       IN  /\ builtForce' = force
           /\ builtSystem' = System_addForce(builtSystem, force)
    /\ UNCHANGED <<callArgs, probe>>
    /\ UNCHANGED <<eulerVars, reporterVars, notebookVars, loopVars>>

\* The engine evaluates the restraint for a particle at some position.
EvaluateRestraint ==
    /\ builtForce.kind = "CustomExternalForce"
    /\ \E position \in ProbePositions(callArgs.box_size) :
          probe' = [evaluated |-> TRUE, position |-> position,
                    energy |-> CustomExternalForce_energy(builtForce, position)]
    /\ UNCHANGED <<callArgs, builtSystem, builtForce>>
    /\ UNCHANGED <<eulerVars, reporterVars, notebookVars, loopVars>>

ForcesNext ==
    \/ CallCreateNonbondedForce
    \/ CallCustomExternalForce
    \/ EvaluateRestraint

(***************************************************************************)
(* Simulation.step(steps) one loop iteration at a time, on a simulation    *)
(* whose reporters are EnergyReporters: until endStep is reached the loop  *)
(* asks every reporter for its next report, advances, and generates the    *)
(* reports that are due.                                                   *)
(***************************************************************************)
LoopStates == {State(0, 1), State(-3, 2)}

ReporterLists ==
    UNION {[1..n -> {NewEnergyReporter(k) : k \in 1..MaxInterval}] : n \in 0..MaxReporters}

NotCalled ==
    [phase |-> "idle", start |-> 0, steps |-> 0, endStep |-> 0,
     nextReport |-> << >>, nextSteps |-> 0]

LoopInit ==
    /\ stepper \in {[currentStep |-> 0, reporters |-> rs] : rs \in ReporterLists}
    /\ loop = NotCalled
    /\ reportedAt = [i \in DOMAIN stepper.reporters |-> << >>]
    /\ calls = 0

\* The simulation of a specification that does not step it.
LoopIdle ==
    /\ stepper = [currentStep |-> 0, reporters |-> << >>]
    /\ loop = NotCalled
    /\ reportedAt = << >>
    /\ calls = 0

\* simulation.step(steps): endStep = currentStep + steps.
CallStep ==
    /\ loop.phase = "idle"
    /\ calls < MaxCalls
    /\ \E steps \in 0..(MaxLoopStep - stepper.currentStep) :
          loop' = [NotCalled EXCEPT !.phase = "while", !.start = stepper.currentStep,
                                    !.steps = steps,
                                    !.endStep = stepper.currentStep + steps]
    /\ UNCHANGED <<stepper, reportedAt, calls>>
    /\ UNCHANGED <<eulerVars, reporterVars, notebookVars, forceVars>>

\* while currentStep < endStep: ask every reporter and settle the number of
\* steps to take.
DescribeReports ==
    /\ loop.phase = "while"
    /\ stepper.currentStep < loop.endStep
    /\ LET nextReport == [i \in DOMAIN stepper.reporters |->
                             Reporter_describeNextReport(stepper.reporters[i], stepper)]
       IN  loop' = [loop EXCEPT !.phase = "advance",
                                !.nextReport = nextReport,
                                !.nextSteps = NextSteps(nextReport,
                                                        loop.endStep - stepper.currentStep)]
    /\ UNCHANGED <<stepper, reportedAt, calls>>
    /\ UNCHANGED <<eulerVars, reporterVars, notebookVars, forceVars>>

\* integrator.step(nextSteps); currentStep += nextSteps
AdvanceIntegrator ==
    /\ loop.phase = "advance"
    /\ stepper' = [stepper EXCEPT !.currentStep = @ + loop.nextSteps]
    /\ loop' = [loop EXCEPT !.phase = "report"]
    /\ UNCHANGED <<reportedAt, calls>>
    /\ UNCHANGED <<eulerVars, reporterVars, notebookVars, forceVars>>

\* The reporters whose answer was the number of steps taken receive the
\* state of the context.
GenerateReports ==
    /\ loop.phase = "report"
    /\ \E state \in LoopStates :
          stepper' = [stepper EXCEPT !.reporters =
                        [i \in DOMAIN @ |->
                            IF ReportDue(loop.nextReport[i], loop.nextSteps)
                              THEN Reporter_report(@[i], stepper, state)
                              ELSE @[i]]]
    /\ reportedAt' = [i \in DOMAIN reportedAt |->
                         IF ReportDue(loop.nextReport[i], loop.nextSteps)
                           THEN Append(reportedAt[i], stepper.currentStep)
                           ELSE reportedAt[i]]
    /\ loop' = [loop EXCEPT !.phase = "while"]
    /\ UNCHANGED calls
    /\ UNCHANGED <<eulerVars, reporterVars, notebookVars, forceVars>>

\* The loop condition fails: step returns.
Return ==
    /\ loop.phase = "while"
    /\ stepper.currentStep >= loop.endStep
    /\ loop' = [loop EXCEPT !.phase = "idle"]
    /\ calls' = calls + 1
    /\ UNCHANGED <<stepper, reportedAt>>
    /\ UNCHANGED <<eulerVars, reporterVars, notebookVars, forceVars>>

LoopBody ==
    \/ DescribeReports
    \/ AdvanceIntegrator
    \/ GenerateReports
    \/ Return

SimulationNext ==
    \/ CallStep
    \/ DescribeReports
    \/ AdvanceIntegrator
    \/ GenerateReports
    \/ Return

(***************************************************************************)
(* Specifications.                                                         *)
(***************************************************************************)
EulerNext ==
    \/ UpdateContextState
    \/ ComputePerDofV
    \/ ComputePerDofX
    \/ ConstrainPositions
    \/ ConstrainVelocities

InitEuler == EulerInit /\ ReporterIdle /\ NotebookIdle /\ ForcesIdle /\ LoopIdle

SpecEuler == InitEuler /\ [][EulerNext]_vars

ReporterNext ==
    \/ CallDescribeNextReport
    \/ CallReport
    \/ AdvanceStep

InitReporter == ReporterInit /\ EulerIdle /\ NotebookIdle /\ ForcesIdle /\ LoopIdle

SpecReporter == InitReporter /\ [][ReporterNext]_vars

InitNotebook == NotebookInit /\ EulerIdle /\ ReporterIdle /\ ForcesIdle /\ LoopIdle

SpecNotebook == InitNotebook /\ [][NotebookNext]_vars

InitForces == ForcesInit /\ EulerIdle /\ ReporterIdle /\ NotebookIdle /\ LoopIdle

SpecForces == InitForces /\ [][ForcesNext]_vars

InitSimulation == LoopInit /\ EulerIdle /\ ReporterIdle /\ NotebookIdle /\ ForcesIdle

SpecSimulation == InitSimulation /\ [][SimulationNext]_vars

\* The caller may never call step; a call in progress keeps running.
SpecSimulationFair == SpecSimulation /\ WF_vars(LoopBody)

(***************************************************************************)
(* Properties of EulerIntegrator.                                          *)
(***************************************************************************)
EulerOrder ==
    <<"UpdateContextState", "ComputePerDof v", "ComputePerDof x",
      "ConstrainPositions", "ConstrainVelocities">>

IsPrefix(s, t) ==
    /\ Len(s) <= Len(t)
    /\ \A i \in 1..Len(s) : s[i] = t[i]

StepCompleted == nsteps > 0 /\ ipc = 0

\* C1: every step of EulerIntegrator executes, in this order and with nothing
\* in between, update context state, v := v+dt*f/m, x := x+dt*v, constrain
\* positions, constrain velocities: the operations executed so far in a step
\* are always the first ipc entries of that list, and a completed step has
\* executed the whole list.
C1_FixedOperationOrder ==
    /\ IsPrefix(oplog, EulerOrder)
    /\ ipc # 0 => Len(oplog) = ipc
    /\ StepCompleted => oplog = EulerOrder

C1_Witness == nsteps >= 2 /\ ipc = 0 /\ oplog = EulerOrder

\* C2: one step yields v' = v + dt*f(x)/m and x' = x + dt*v with v the
\* velocity at the beginning of the step (explicit, forward Euler).
C2_ForwardEuler ==
    StepCompleted =>
        \A i \in DOMAIN x :
            /\ v[i] = v0[i] + integrator.dt * (Force(x0, spring)[i] \div mass)
            /\ x[i] = x0[i] + integrator.dt * v0[i]

(***************************************************************************)
(* Properties of EnergyReporter.                                           *)
(***************************************************************************)
\* C3: for every reportInterval k >= 1 and currentStep s >= 0 the first
\* element of describeNextReport's answer is a number n of steps with
\* 1 <= n <= k and (s + n) mod k = 0; at a multiple of k it is k, never 0.
C3_StepsUntilNextReport ==
    described # << >> =>
        LET n == described[1]
            k == reporter._reportInterval
        IN  /\ 1 <= n /\ n <= k
            /\ (askedAt + n) % k = 0
            /\ (askedAt % k = 0 => n = k)

C3_Witness ==
    /\ described # << >>
    /\ reporter._reportInterval > 1
    /\ askedAt > 0
    /\ askedAt % reporter._reportInterval = 0
    /\ described[1] = reporter._reportInterval

C5_ListsInStep ==
    /\ Len(reporter._pe) = Len(reportLog)
    /\ Len(reporter._ke) = Len(reportLog)
    /\ Len(reporter._te) = Len(reportLog)
    /\ \A i \in 1..Len(reportLog) :
          /\ reporter._pe[i] = reportLog[i].potentialEnergy.value
          /\ reporter._ke[i] = reportLog[i].kineticEnergy.value
          /\ reporter._te[i] = reporter._pe[i] + reporter._ke[i]

C5_AppendOnly ==
    /\ IsPrefix(reporter._pe, reporter._pe')
    /\ IsPrefix(reporter._ke, reporter._ke')
    /\ IsPrefix(reporter._te, reporter._te')

C5_EnergyLists == []C5_ListsInStep /\ [][C5_AppendOnly]_vars

C5_Witness ==
    /\ Len(reportLog) >= 2
    /\ described # << >>
    /\ reportLog[1] # reportLog[2]
    /\ reporter._te[2] = reporter._pe[2] + reporter._ke[2]

(***************************************************************************)
(* Properties of the notebook runs.                                        *)
(***************************************************************************)
StageRank(stage) ==
    CASE stage = "configure"      -> 1
      [] stage = "force_field"    -> 2
      [] stage = "integrator"     -> 3
      [] stage = "context"        -> 4
      [] stage = "set_positions"  -> 5
      [] stage = "set_velocities" -> 5
      [] stage = "minimize"       -> 6
      [] stage = "reporters"      -> 7
      [] stage = "step"           -> 8
      [] stage = "load"           -> 9
      [] stage = "visualize"      -> 10
      [] stage = "plot"           -> 11

\* Every occurrence of stage b in trace t comes after an occurrence of a.
Precedes(t, a, b) ==
    \A j \in DOMAIN t : t[j] = b => \E i \in 1..(j - 1) : t[i] = a

\* No occurrence of stage b in trace t comes before an occurrence of a.
NeverBefore(t, b, a) ==
    \A i \in DOMAIN t : \A j \in DOMAIN t : (t[i] = b /\ t[j] = a) => j < i

InListOrder(t) ==
    \A i \in DOMAIN t : \A j \in DOMAIN t :
        i < j => StageRank(t[i]) <= StageRank(t[j])

BuildsItsSystem == stages.run # "compare"

Built(object) == object.id # 0

C7_LengthsMatch ==
    LET n == globals.n_particles
        sim == globals.simulation
    IN  /\ Built(globals.system) => System_getNumParticles(globals.system) = n
        /\ (Built(globals.force) /\ globals.force.kind = "NonbondedForce")
              => Len(globals.force.particles) = n
        /\ Built(globals.topology) =>
              /\ Len(Topology_atoms(globals.topology)) = n
              /\ \A i \in 1..n : Topology_atoms(globals.topology)[i].index = i - 1
        /\ Built(globals.positions) =>
              /\ Len(globals.positions.rows) = n
              /\ \A i \in 1..n : Len(globals.positions.rows[i]) = 3
        /\ Built(sim) =>
              /\ System_getNumParticles(sim.system) = n
              /\ Len(Topology_atoms(sim.topology)) = n
              /\ Len(sim.context.positions) = n
              /\ \A f \in DOMAIN sim.system.forces :
                    sim.system.forces[f].kind = "NonbondedForce"
                        => Len(sim.system.forces[f].particles) = n

C7_Witness ==
    /\ globals.n_particles >= 2
    /\ Built(globals.simulation)
    /\ lastSet.positions # 0
    /\ globals.simulation.currentStep > 0
    /\ Len(globals.simulation.system.forces) > 0

\* C8: the topology create_topology returns has exactly one chain and
\* n_particles residues named Ar with ids 0..n-1 in creation order, each
\* holding exactly one atom Ar.
C8_TopologyMirrorsSystem ==
    Built(globals.topology) =>
        LET top == globals.topology
            residues == top.chains[1].residues
        IN  /\ Len(top.chains) = 1
            /\ Len(residues) = globals.n_particles
            /\ Len(Topology_atoms(top)) = globals.n_particles
            /\ \A i \in DOMAIN residues :
                  /\ residues[i].name = "Ar"
                  /\ residues[i].id = i - 1
                  /\ Len(residues[i].atoms) = 1
                  /\ residues[i].atoms[1].name = "Ar"

C8_Witness ==
    /\ Built(globals.topology)
    /\ globals.n_particles >= 2
    /\ globals.topology.chains[1].residues[2].id = 1

\* C9: in the comparison loop every simulation starts from values equal to
\* start_positions and start_velocities, it is built from deep copies (new
\* objects) of the stored topology, system, positions and velocities, and
\* no statement after the capture changes start_positions,
\* start_velocities, start_topology or start_system.
InComparisonRun == stages.run = "compare" /\ iter > 0

C9_SameStart ==
    LET sim == globals.simulation
        t == stages.trace
    IN  InComparisonRun =>
          /\ (\E i \in DOMAIN t : t[i] = "context") =>
                /\ sim.topology.id # globals.start_topology.id
                /\ sim.system.id # globals.start_system.id
                /\ sim.topology.chains = globals.start_topology.chains
                /\ sim.system.masses = globals.start_system.masses
                /\ sim.system.forces = globals.start_system.forces
          /\ (\E i \in DOMAIN t : t[i] = "set_velocities") =>
                /\ lastSet.positions \notin {0, globals.start_positions.id}
                /\ lastSet.velocities \notin {0, globals.start_velocities.id}
                /\ sim.currentStep = 0 =>
                      /\ sim.context.positions = globals.start_positions.rows
                      /\ sim.context.velocities = globals.start_velocities.rows

Captured == Built(globals.start_system)

C9_StartUnchanged ==
    Captured =>
        /\ globals.start_positions' = globals.start_positions
        /\ globals.start_velocities' = globals.start_velocities
        /\ globals.start_topology' = globals.start_topology
        /\ globals.start_system' = globals.start_system

C9_SameStartingPoint == []C9_SameStart /\ [][C9_StartUnchanged]_vars

C9_Witness ==
    /\ InComparisonRun
    /\ iter = 3
    /\ error = ""
    /\ Cur.op = "collect_energies"
    /\ globals.simulation.currentStep = RunSteps
    /\ globals.simulation.context.positions # globals.start_positions.rows
    /\ globals.start_positions.rows # globals.start_velocities.rows

\* C10: a call that raises ends the execution: the failing statement stays
\* the current one, nothing executes after it and it is not attempted
\* again; in the comparison loop list_energies then holds exactly the
\* entries of the integrators before the failing one.
C10_FailedStatementCurrent ==
    /\ error # "" => Cur.op = error
    /\ (pc <= Len(Program) /\ Cur.run = "compare") =>
          Len(globals.list_energies) = IF Cur.op = "for" THEN iter ELSE iter - 1

C10_NothingAfterError == error # "" => UNCHANGED notebookVars

C10_ErrorsPropagate == []C10_FailedStatementCurrent /\ [][C10_NothingAfterError]_vars

C10_Witness ==
    /\ error = "step"
    /\ iter = 2
    /\ Cur.run = "compare"
    /\ globals.simulation.currentStep > 0
    /\ Len(globals.list_energies) = 1

(***************************************************************************)
(* Properties of the force builders.                                       *)
(***************************************************************************)
\* C11: the custom external force is a spherical restraint around the box
\* centre: the energy of a particle at distance r from
\* (box_size/2, box_size/2, box_size/2) is 10*max(0, r - r0)^2 with
\* r0 = 2.0 nm, zero for r <= r0 and positive for r > r0; and the force
\* lists every particle index 0..getNumParticles()-1 exactly once and is
\* added to the system.
C11_SphericalRestraint ==
    builtForce.kind = "CustomExternalForce" =>
        /\ builtForce.particles =
              [i \in 1..System_getNumParticles(builtSystem) |-> i - 1]
        /\ builtSystem.forces[Len(builtSystem.forces)] = builtForce
        /\ probe.evaluated =>
              LET half == callArgs.box_size \div 2
                  dx == probe.position[1] - half
                  dy == probe.position[2] - half
                  dz == probe.position[3] - half
                  r == sqrt(dx * dx + dy * dy + dz * dz)
              IN  /\ r * r = dx * dx + dy * dy + dz * dz
                  /\ r <= 200 => probe.energy = 0
                  /\ r > 200 => /\ probe.energy > 0
                                /\ probe.energy = (10 * (r - 200) * (r - 200)) \div 10

C11_Witness ==
    /\ builtForce.kind = "CustomExternalForce"
    /\ Len(builtForce.particles) >= 2
    /\ probe.evaluated
    /\ probe.position[2] # callArgs.box_size \div 2
    /\ probe.energy > 0

\* C15: for every sigma > 0 the force create_NonBonndedForce returns has
\* cutoff distance 3.0*sigma and switching distance 2.5*sigma, the switching
\* function and the dispersion correction on, the switching distance below
\* the cutoff, and the triple (charge, sigma, epsilon) it was passed in every
\* particle entry.
C15_CutoffAndSwitching ==
    builtForce.kind = "NonbondedForce" /\ Built(builtForce) =>
        /\ callArgs.sigma > 0
        /\ builtForce.method = "CutoffPeriodic"
        /\ builtForce.cutoff = 3 * callArgs.sigma
        /\ 10 * builtForce.switching = 25 * callArgs.sigma
        /\ builtForce.useSwitching
        /\ builtForce.useDispersion
        /\ builtForce.switching < builtForce.cutoff
        /\ Len(builtForce.particles) = callArgs.n_particles
        /\ \A i \in DOMAIN builtForce.particles :
              builtForce.particles[i] = <<callArgs.charge, callArgs.sigma, callArgs.epsilon>>

C15_Witness ==
    /\ builtForce.kind = "NonbondedForce"
    /\ Built(builtForce)
    /\ callArgs.sigma # 34
    /\ callArgs.charge # 0
    /\ Len(builtForce.particles) >= 2

(***************************************************************************)
(* Properties of Simulation.step with EnergyReporters.                     *)
(***************************************************************************)
\* k, 2k, ... up to the largest multiple of k that is at most upto.
Multiples(k, upto) == [i \in 1..(upto \div k) |-> i * k]

FromStepZero == Len(stepper.reporters) = 1 /\ loop.start = 0

\* C12: step(N) from currentStep = 0 with one EnergyReporter(k) calls report
\* at the steps k, 2k, ..., floor(N/k)*k, once each and in increasing order,
\* never at step 0 and never at a step that is no multiple of k; when the
\* call has returned the reporter holds floor(N/k) samples.
C12_ReportsAtMultiples ==
    FromStepZero =>
        LET k == stepper.reporters[1]._reportInterval
            delivered == IF loop.phase = "report" THEN stepper.currentStep - 1
                                                  ELSE stepper.currentStep
        IN  /\ reportedAt[1] = Multiples(k, delivered)
            /\ \A i \in DOMAIN reportedAt[1] :
                  reportedAt[1][i] > 0 /\ reportedAt[1][i] % k = 0
            /\ (loop.phase = "idle" /\ calls > 0) =>
                  /\ stepper.currentStep = loop.steps
                  /\ Len(reportedAt[1]) = loop.steps \div k
                  /\ Len(stepper.reporters[1]._te) = loop.steps \div k
                  /\ Len(stepper.reporters[1]._pe) = loop.steps \div k
                  /\ Len(stepper.reporters[1]._ke) = loop.steps \div k

C12_Witness ==
    /\ FromStepZero
    /\ loop.phase = "idle"
    /\ calls = 1
    /\ stepper.reporters[1]._reportInterval = 2
    /\ loop.steps = 5
    /\ reportedAt[1] = <<2, 4>>

InCall == loop.phase # "idle"

C17_AnswersPositive ==
    /\ \A i \in DOMAIN loop.nextReport : loop.nextReport[i][1] >= 1
    /\ loop.phase \in {"advance", "report"} => loop.nextSteps >= 1
    /\ (loop.phase = "idle" /\ calls > 0) =>
          stepper.currentStep = loop.start + loop.steps

C17_EveryIterationAdvances ==
    stepper.currentStep' # stepper.currentStep =>
        /\ stepper.currentStep' > stepper.currentStep
        /\ stepper.currentStep' <= loop.endStep

\* C17: for every reportInterval k >= 1, every starting step and every
\* N >= 0, step(N) on a simulation whose reporters are EnergyReporters
\* returns, with currentStep increased by exactly N: every describeNextReport
\* answer is at least 1, every loop iteration advances by at least one step
\* and never beyond the end step, and a call in progress always returns.
C17_StepTerminates ==
    /\ []C17_AnswersPositive
    /\ [][C17_EveryIterationAdvances]_vars
    /\ (InCall ~> ~InCall)

C17_Witness ==
    /\ ~InCall
    /\ calls = 2
    /\ loop.start > 0
    /\ loop.steps > 1
    /\ Len(stepper.reporters) = 2
    /\ stepper.reporters[1]._reportInterval # stepper.reporters[2]._reportInterval
    /\ stepper.currentStep = loop.start + loop.steps

(***************************************************************************)
(* Further properties of the notebook runs.                                *)
(***************************************************************************)
KindOfName(name) ==
    CASE name = "leap-frog"       -> "VerletIntegrator"
      [] name = "velocity-verlet" -> "VelocityVerletIntegrator"
      [] name = "euler"           -> "EulerIntegrator"

LoopCompleted ==
    /\ nb = "own_integrator"
    /\ pc > IndexOf("collect_energies")
    /\ error = ""

C13_OneEntryPerIntegrator ==
    /\ globals.integrators # << >> =>
          /\ Len(globals.list_names) = Len(globals.integrators)
          /\ globals.list_names = <<"leap-frog", "velocity-verlet", "euler">>
          /\ \A i \in DOMAIN globals.integrators :
                globals.integrators[i].kind = KindOfName(globals.list_names[i])
    /\ LoopCompleted => Len(globals.list_energies) = Len(globals.integrators)
    /\ \A i \in DOMAIN globals.list_energies : \A j \in 1..3 :
          Len(globals.list_energies[i][j]) = RunSteps \div ReportEvery

C13_EntryOfThisRun ==
    globals.list_energies' # globals.list_energies =>
        LET sim == globals.simulation
            r == sim.reporters[1]
            i == Len(globals.list_energies')
        IN  /\ globals.list_energies' = Append(globals.list_energies, <<r._te, r._pe, r._ke>>)
            /\ Len(sim.reporters) = 1
            /\ r.kind = "EnergyReporter"
            /\ i = iter
            /\ sim.integrator.id = globals.integrators[i].id
            /\ sim.id = simulations[Len(simulations)].id
            /\ simulations[Len(simulations)].reporters = << >>
            /\ \A k \in 1..(Len(simulations) - 1) :
                  simulations[k].integrator.id # sim.integrator.id

\* C13: when the comparison loop completes, list_energies holds one entry
\* per integrator in the order of integrators and list_names (leap-frog,
\* velocity-verlet, euler); entry i is the (total, potential, kinetic)
\* lists of the one EnergyReporter of the simulation of integrator i, a
\* simulation created in that iteration with no reporter attached, so it
\* holds the samples of that run only; and appending an entry leaves the
\* earlier entries as they were.
C13_EnergiesPerIntegrator ==
    []C13_OneEntryPerIntegrator /\ [][C13_EntryOfThisRun]_vars

C13_Witness ==
    /\ LoopCompleted
    /\ Len(globals.list_energies) = 3
    /\ globals.n_particles >= 1
    /\ globals.list_energies[3][3][1] > 0

\* The context holds the randomly generated positions array.
StartsFromRandom == Built(globals.positions) /\ lastSet.positions = globals.positions.id

Stepped == globals.simulation.currentStep > 0

C14_MinimizedWhenStepping ==
    LET sim == globals.simulation
        t == stages.trace
    IN  /\ (Stepped /\ StartsFromRandom) => sim.context.minimized
        /\ (At("step") /\ StartsFromRandom) =>
              /\ sim.context.minimized
              /\ \E i \in DOMAIN t : \E j \in DOMAIN t :
                    /\ i < j
                    /\ t[i] = "set_positions"
                    /\ t[j] = "minimize"
                    /\ \A k \in (j + 1)..Len(t) : t[k] # "set_positions"
        /\ (Stepped /\ ~sim.context.minimized) =>
              /\ stages.run = "compare"
              /\ ~StartsFromRandom
              /\ lastSet.positions # 0
              /\ (sim.currentStep = RunSteps \/ error = "step")
        /\ (At("step") /\ Cur.run = "compare") =>
              sim.context.positions = globals.start_positions.rows

C14_StartIsEquilibrated ==
    globals.start_positions' # globals.start_positions =>
        /\ globals.simulation.context.minimized
        /\ globals.simulation.currentStep = RunSteps
        /\ globals.start_positions'.rows = globals.simulation.context.positions

\* C14: in every run that starts from the randomly generated positions,
\* minimizeEnergy is called after setPositions and before the first step, so
\* no step is advanced from unminimized random positions; the only runs that
\* step without minimizing are the comparison runs, and these start from the
\* positions of a simulation that was minimized and then stepped.
C14_MinimizeBeforeDynamics ==
    []C14_MinimizedWhenStepping /\ [][C14_StartIsEquilibrated]_vars

C14_Witness ==
    /\ nb = "droplet"
    /\ stages.run = "droplet_normal"
    /\ Stepped
    /\ StartsFromRandom
    /\ globals.n_particles >= 2
    /\ globals.simulation.context.minimized

\* C16 as stated: every coordinate c of the initial positions satisfies
\* 0 <= c < box_size in the own-integrator notebook and
\* space <= c < box_size - space in the droplet notebook.
C16_InsideRegionStrict ==
    Built(globals.positions) =>
        \A i \in DOMAIN globals.positions.rows : \A c \in 1..3 :
            LET coordinate == globals.positions.rows[i][c]
            IN  IF nb = "own_integrator"
                  THEN /\ 0 <= coordinate
                       /\ coordinate < InPositionUnits(globals.box_size)
                  ELSE /\ InPositionUnits(globals.space) <= coordinate
                       /\ coordinate < InPositionUnits(globals.box_size - globals.space)

\* C16 amended: every coordinate c of the initial positions satisfies
\* 0 <= c < box_size in the own-integrator notebook and
\* space <= c <= box_size - space in the droplet notebook, where the largest
\* draw is rounded up to box_size - space itself.
C16_InsideRegion ==
    Built(globals.positions) =>
        \A i \in DOMAIN globals.positions.rows : \A c \in 1..3 :
            LET coordinate == globals.positions.rows[i][c]
            IN  IF nb = "own_integrator"
                  THEN /\ 0 <= coordinate
                       /\ coordinate < InPositionUnits(globals.box_size)
                  ELSE /\ InPositionUnits(globals.space) <= coordinate
                       /\ coordinate <= InPositionUnits(globals.box_size - globals.space)

C16_Witness ==
    /\ nb = "droplet"
    /\ Built(globals.positions)
    /\ globals.n_particles >= 2
    /\ globals.positions.rows[1][1] = InPositionUnits(globals.space)
    /\ globals.positions.rows[2][1] = InPositionUnits(globals.box_size - globals.space)
    /\ globals.positions.rows[2][2] < InPositionUnits(globals.box_size - globals.space)

\* Identities are handed out in creation order: an object is newer than
\* another when its identity is the larger one.
NoSharing ==
    \A k \in DOMAIN simulations : \A j \in DOMAIN simulations :
        j # k => /\ simulations[k].integrator.id # simulations[j].integrator.id
                 /\ simulations[k].system.id # simulations[j].system.id

\* C18 as stated: no integrator and no system is used by two Simulations,
\* and every Simulation is constructed with an integrator and a system that
\* were created after the previous Simulation was constructed.
C18_FreshIntegratorAndSystem ==
    /\ NoSharing
    /\ \A k \in 2..Len(simulations) :
          /\ simulations[k].system.id > simulations[k - 1].id
          /\ simulations[k].integrator.id > simulations[k - 1].id

\* The integrator of simulations[k] is the successor, in the list
\* integrators, of the integrator of simulations[k - 1].
NextOfTheList(k) ==
    \E i \in 2..Len(globals.integrators) :
        /\ simulations[k].integrator.id = globals.integrators[i].id
        /\ simulations[k - 1].integrator.id = globals.integrators[i - 1].id

\* C18 amended: no integrator and no system is used by two Simulations;
\* every Simulation is constructed with a system (or deep copy) created
\* after the previous Simulation was constructed; its integrator was created
\* after the previous Simulation as well, except in the second and third
\* pass of the comparison loop, whose integrators were created together
\* with the first pass's, in the list integrators, before the loop.
C18_NoSharedIntegratorOrSystem ==
    /\ NoSharing
    /\ \A k \in 2..Len(simulations) :
          /\ simulations[k].system.id > simulations[k - 1].id
          /\ \/ simulations[k].integrator.id > simulations[k - 1].id
             \/ NextOfTheList(k)
    /\ \A k \in DOMAIN simulations :
          /\ simulations[k].integrator.id < simulations[k].id
          /\ simulations[k].system.id < simulations[k].id

C18_Witness ==
    /\ nb = "own_integrator"
    /\ Len(simulations) = 6
    /\ simulations[6].integrator.kind = "EulerIntegrator"
    /\ simulations[6].integrator.id < simulations[5].id
    /\ error = ""

\* The system the Simulation statement about to execute hands to the engine.
SystemArgument ==
    IF Cur.arg = "deepcopy" THEN globals.start_system ELSE globals.system

\* C19: with sigma = 3.4 angstrom and box_size = 50 angstrom or 75 angstrom
\* the cutoff 3.0*sigma that create_NonBonndedForce sets is at most
\* box_size/2, so the engine's check of the cutoff against the box passes
\* for the system of every Simulation the notebooks construct.
C19_CutoffWithinHalfBox ==
    /\ Built(globals.force) /\ globals.force.kind = "NonbondedForce" =>
          /\ globals.sigma = 34
          /\ globals.box_size \in {500, 750}
          /\ globals.force.cutoff = 3 * globals.sigma
          /\ 2 * globals.force.cutoff <= globals.box_size
    /\ At("Simulation") =>
          /\ Context_cutoffWithinBox(SystemArgument)
          /\ SystemArgument.box = Diag(globals.box_size)
          /\ \E f \in DOMAIN SystemArgument.forces :
                SystemArgument.forces[f].method = "CutoffPeriodic"
    /\ \A k \in DOMAIN simulations : Context_cutoffWithinBox(simulations[k].system)

C19_Witness ==
    /\ nb = "droplet"
    /\ Len(simulations) = 2
    /\ Len(simulations[2].system.forces) = 2
    /\ simulations[2].system.forces[1].cutoff = 102
    /\ simulations[2].system.box = Diag(750)
    /\ globals.n_particles >= 1

====
